---- MODULE Spec2Model ----
(***************************************************************************)
(* Model of src/src/main.rs: a command-line program that tokenizes a text  *)
(* with an external morphological tokenizer, merges runs of consecutive    *)
(* tokens that spell an entry of a user dictionary                         *)
(* (merge_user_dictionary_words) and writes the result to a CSV file.      *)
(*                                                                         *)
(* Texts are sequences of characters.  The code's cursor i is 0-based;     *)
(* Tok(j) reads the code's tokens[j].                                      *)
(***************************************************************************)
EXTENDS Integers, Sequences, FiniteSets, TLC

\* ------------------------------------------------------------------ bounds
MaxTokens == 4        \* longest token sequence the tokenizer returns
MaxEntryChars == 3    \* longest user dictionary entry, in characters
MaxVocab == 2         \* most entries in the user dictionary
BufCapacity == 2      \* units (BOM, header, row) the output buffers hold

\* "A" stands for a one-byte character, "B" for a three-byte one.
Alphabet == {"A", "B"}

Utf8Len(c) == IF c = "A" THEN 1 ELSE 3

\* Texts of the first-pass tokens: never empty, one or two characters.
TokenTexts == {<<"A">>, <<"B">>, <<"A", "B">>}

\* position_length per token parity: the tokenizer's constant 1, or values
\* that differ between neighbours.
PositionLengths == {<<1, 1>>, <<1, 2>>}

RECURSIVE Strs(_)
Strs(n) ==
    IF n = 0 THEN {<<>>}
    ELSE Strs(n - 1) \cup {Append(s, c) : s \in Strs(n - 1), c \in Alphabet}

RECURSIVE SubsetsUpTo(_, _)
SubsetsUpTo(S, k) ==
    IF k = 0 THEN {{}}
    ELSE LET P == SubsetsUpTo(S, k - 1)
         IN  P \cup {p \cup {x} : p \in P, x \in S}

\* Strings a dictionary row may hold: at most MaxEntryChars characters, of
\* which only the first may be "A".  The pool has the blank row, single
\* characters, entries of every length and entries that are prefixes,
\* suffixes and infixes of one another.
DictTexts == {s \in Strs(MaxEntryChars) : \A k \in 2..Len(s) : s[k] = "B"}

Vocabularies == SubsetsUpTo(DictTexts, MaxVocab)

TokenTextSeqs == UNION {[1..n -> TokenTexts] : n \in 0..MaxTokens}

\* ------------------------------------------------------------------- state
VARIABLES
    pc,                             \* position in main
    has_dict,                       \* args.len() == 4
    tokens,                         \* result of tokenizer.tokenize
    user_dic,                       \* HashSet loaded by load_user_dictionary
    max_length,                     \* max_user_dic_length
    i,                              \* cursor of the merge loop
    corrected_tokens,               \* Vec<MergedToken> being built
    extracted_user_dictionaries,    \* HashSet of the matched candidates
    spans,                          \* history: run covered by each output
    iters,                          \* history: iterations of the while loop
    file_created,                   \* File::create has truncated the output
    ondisk,                         \* units that reached the output file
    buffered,                       \* units held in the writer's buffers
    rows,                           \* records handed to the CSV writer
    printed,                        \* completion message was printed
    failed_stage                    \* stage whose error ended the run

vars == <<pc, has_dict, tokens, user_dic, max_length, i, corrected_tokens,
          extracted_user_dictionaries, spans, iters, file_created, ondisk,
          buffered, rows, printed, failed_stage>>

mergeVars == <<max_length, i, corrected_tokens, extracted_user_dictionaries,
               spans, iters>>
fileVars == <<file_created, ondisk, buffered, rows, printed>>

\* ---------------------------------------------------------- pure functions
RECURSIVE ByteLen(_)
ByteLen(s) == IF s = <<>> THEN 0 ELSE Utf8Len(Head(s)) + ByteLen(Tail(s))

\* name.chars().count()
CharCount(s) == Len(s)

RECURSIVE ConcatText(_)
ConcatText(ts) ==
    IF ts = <<>> THEN <<>> ELSE Head(ts).text \o ConcatText(Tail(ts))

RECURSIVE ByteOffset(_, _)
ByteOffset(texts, j) ==
    IF j = 0 THEN 0 ELSE ByteOffset(texts, j - 1) + ByteLen(texts[j])

\* The tokens the tokenizer yields for a text split as `texts`: contiguous
\* byte ranges, positions counted from 0.
MkTokens(texts, pl) ==
    [j \in 1..Len(texts) |->
        [text            |-> texts[j],
         byte_start      |-> ByteOffset(texts, j - 1),
         byte_end        |-> ByteOffset(texts, j),
         position        |-> j - 1,
         position_length |-> pl[((j - 1) % 2) + 1]]]

Tok(j) == tokens[j + 1]

SetMax(S) == CHOOSE x \in S : \A y \in S : y <= x
SetMin(S) == CHOOSE x \in S : \A y \in S : x <= y

MaxUserDicLengthMin(dic) ==
    IF dic = {} THEN 1 ELSE SetMin({CharCount(name) : name \in dic})

\* user_dic_set.iter().map(|name| name.chars().count()).max().unwrap_or(1)
MaxUserDicLength(dic) ==
    IF dic = {} THEN 1 ELSE SetMax({CharCount(name) : name \in dic})

WindowFitsOffByOne(cur, window_size) == ~(cur + window_size > Len(tokens) + 1)

\* the negation of `if i + window_size > len { continue; }`
WindowFits(cur, window_size) == ~(cur + window_size > Len(tokens))

\* tokens[from..to] does not panic
SliceInBounds(from, to) == from <= to /\ to <= Len(tokens)

CandidateDropLast(cur, window_size) ==
    ConcatText(SubSeq(tokens, cur + 1, cur + window_size - 1))

\* tokens[i..i + window_size].iter().map(|t| t.text).collect::<String>()
Candidate(cur, window_size) ==
    ConcatText(SubSeq(tokens, cur + 1, cur + window_size))

IsInfix(v, s) ==
    \E a \in 0..(Len(s) - Len(v)) : SubSeq(s, a + 1, a + Len(v)) = v

ContainsInfix(dic, candidate) == \E v \in dic : IsInfix(v, candidate)

\* user_dictionary.contains(&candidate)
Contains(dic, candidate) == candidate \in dic

\* The for loop over (1..=max_match_length).rev(), entered with the largest
\* window: the window size that matched, 0 when the loop ran out, -1 when a
\* slice went out of bounds (a panic).
RECURSIVE FindWindowFrom(_, _)
FindWindowFrom(cur, window_size) ==
    IF window_size < 1 THEN 0
    ELSE IF ~WindowFits(cur, window_size)
         THEN FindWindowFrom(cur, window_size - 1)
    ELSE IF ~SliceInBounds(cur, cur + window_size) THEN -1
    ELSE IF Contains(user_dic, Candidate(cur, window_size)) THEN window_size
    ELSE FindWindowFrom(cur, window_size - 1)

RECURSIVE FindWindowUp(_, _)
FindWindowUp(cur, window_size) ==
    IF window_size > max_length THEN 0
    ELSE IF ~WindowFits(cur, window_size) THEN 0
    ELSE IF Contains(user_dic, Candidate(cur, window_size)) THEN window_size
    ELSE FindWindowUp(cur, window_size + 1)

FindWindowShortestFirst(cur) == FindWindowUp(cur, 1)

FindWindow(cur) == FindWindowFrom(cur, max_length)

MergedTokenFirstOnly(cur, window_size) ==
    [text            |-> Candidate(cur, window_size),
     byte_start      |-> Tok(cur).byte_start,
     byte_end        |-> Tok(cur).byte_end,
     position        |-> Tok(cur).position,
     position_length |-> Tok(cur).position_length]

\* the MergedToken built on a match
MergedTokenOf(cur, window_size) ==
    [text            |-> Candidate(cur, window_size),
     byte_start      |-> Tok(cur).byte_start,
     byte_end        |-> Tok(cur + window_size - 1).byte_end,
     position        |-> Tok(cur).position,
     position_length |-> Tok(cur + window_size - 1).position_length]

UnmergedTokenNoEnd(token) ==
    [text            |-> token.text,
     byte_start      |-> token.byte_start,
     byte_end        |-> token.byte_start,
     position        |-> token.position,
     position_length |-> token.position_length]

\* the MergedToken built from an unmatched token
UnmergedTokenOf(token) ==
    [text            |-> token.text,
     byte_start      |-> token.byte_start,
     byte_end        |-> token.byte_end,
     position        |-> token.position,
     position_length |-> token.position_length]

PushFront(v, x) == <<x>> \o v

\* Vec::push
Push(v, x) == Append(v, x)

InsertReplacing(s, x) == {x}

\* HashSet::insert
Insert(s, x) == s \cup {x}

\* i += window_size
Advance(cur, window_size) == cur + window_size

\* ------------------------------------------------------------------- Init
Init ==
    /\ pc = "open_input"
    /\ has_dict \in BOOLEAN
    /\ tokens = <<>>
    /\ user_dic = {}
    /\ max_length = 0
    /\ i = 0
    /\ corrected_tokens = <<>>
    /\ extracted_user_dictionaries = {}
    /\ spans = <<>>
    /\ iters = 0
    /\ file_created = FALSE
    /\ ondisk = 0
    /\ buffered = 0
    /\ rows = 0
    /\ printed = FALSE
    /\ failed_stage = "none"

\* ------------------------------------------------------- main, before merge
OpenInput ==
    /\ pc = "open_input"
    /\ pc' = "read_input"
    /\ UNCHANGED <<has_dict, tokens, user_dic, mergeVars, fileVars, failed_stage>>

ReadInput ==
    /\ pc = "read_input"
    /\ pc' = "create_tokenizer"
    /\ UNCHANGED <<has_dict, tokens, user_dic, mergeVars, fileVars, failed_stage>>

CreateTokenizer ==
    /\ pc = "create_tokenizer"
    /\ pc' = "tokenize"
    /\ UNCHANGED <<has_dict, tokens, user_dic, mergeVars, fileVars, failed_stage>>

Tokenize ==
    /\ pc = "tokenize"
    /\ \E texts \in TokenTextSeqs, pl \in PositionLengths :
           tokens' = MkTokens(texts, pl)
    /\ pc' = "load_user_dictionary"
    /\ UNCHANGED <<has_dict, user_dic, mergeVars, fileVars, failed_stage>>

LoadUserDictionary ==
    /\ pc = "load_user_dictionary"
    /\ has_dict
    /\ \E dic \in Vocabularies : user_dic' = dic
    /\ pc' = "max_length"
    /\ UNCHANGED <<has_dict, tokens, mergeVars, fileVars, failed_stage>>

NoUserDictionary ==
    /\ pc = "load_user_dictionary"
    /\ ~has_dict
    /\ pc' = "convert"
    /\ UNCHANGED <<has_dict, tokens, user_dic, mergeVars, fileVars, failed_stage>>

\* An I/O, tokenizer or dictionary error: `?` returns it from main.
StageFails ==
    /\ pc \in {"open_input", "read_input", "create_tokenizer", "tokenize",
               "create_output"}
       \/ (pc = "load_user_dictionary" /\ has_dict)
    /\ failed_stage' = pc
    /\ pc' = "exit_err"
    /\ UNCHANGED <<has_dict, tokens, user_dic, mergeVars, fileVars>>

\* The branch without a user dictionary: every Token becomes a MergedToken.
ConvertTokens ==
    /\ pc = "convert"
    /\ corrected_tokens' = [j \in 1..Len(tokens) |-> UnmergedTokenOf(tokens[j])]
    /\ spans' = [j \in 1..Len(tokens) |-> [start |-> j - 1, size |-> 1, merged |-> FALSE]]
    /\ pc' = "create_output"
    /\ UNCHANGED <<has_dict, tokens, user_dic, max_length, i,
                   extracted_user_dictionaries, iters, fileVars, failed_stage>>

\* ------------------------------------------- merge_user_dictionary_words
ComputeMaxLength ==
    /\ pc = "max_length"
    /\ max_length' = MaxUserDicLength(user_dic)
    /\ i' = 0
    /\ pc' = "merge"
    /\ UNCHANGED <<has_dict, tokens, user_dic, corrected_tokens,
                   extracted_user_dictionaries, spans, iters, fileVars,
                   failed_stage>>

\* One iteration of the while loop in which a window matched.
MergeMatched ==
    /\ pc = "merge"
    /\ i < Len(tokens)
    /\ FindWindow(i) > 0
    /\ LET window_size == FindWindow(i)
       IN  IF SliceInBounds(i, i + window_size)
           THEN /\ corrected_tokens' =
                       Push(corrected_tokens, MergedTokenOf(i, window_size))
                /\ extracted_user_dictionaries' =
                       Insert(extracted_user_dictionaries, Candidate(i, window_size))
                /\ spans' = Append(spans, [start |-> i, size |-> window_size,
                                           merged |-> TRUE])
                /\ i' = Advance(i, window_size)
                /\ iters' = iters + 1
                /\ pc' = "merge"
           ELSE /\ pc' = "panic"
                /\ UNCHANGED <<i, corrected_tokens, extracted_user_dictionaries,
                               spans, iters>>
    /\ UNCHANGED <<has_dict, tokens, user_dic, max_length, fileVars, failed_stage>>

\* One iteration of the while loop in which no window matched.
MergeUnmatched ==
    /\ pc = "merge"
    /\ i < Len(tokens)
    /\ FindWindow(i) <= 0
    /\ IF FindWindow(i) = 0
       THEN /\ corrected_tokens' = Push(corrected_tokens, UnmergedTokenOf(Tok(i)))
            /\ spans' = Append(spans, [start |-> i, size |-> 1, merged |-> FALSE])
            /\ i' = i + 1
            /\ iters' = iters + 1
            /\ pc' = "merge"
       ELSE /\ pc' = "panic"
            /\ UNCHANGED <<i, corrected_tokens, spans, iters>>
    /\ UNCHANGED <<has_dict, tokens, user_dic, max_length,
                   extracted_user_dictionaries, fileVars, failed_stage>>

\* The while condition fails: the function returns its two results.
MergeReturn ==
    /\ pc = "merge"
    /\ ~(i < Len(tokens))
    /\ pc' = "create_output"
    /\ UNCHANGED <<has_dict, tokens, user_dic, mergeVars, fileVars, failed_stage>>

\* ------------------------------------------------------ write_tokens_to_csv
\* The CSV writer and the BufWriter under it are modelled as one buffer of
\* BufCapacity units; a unit handed to a full buffer first spills the buffer
\* into the file.
Complete == file_created /\ ondisk = 2 + Len(corrected_tokens)

BufferUnit ==
    IF buffered < BufCapacity
    THEN buffered' = buffered + 1 /\ ondisk' = ondisk
    ELSE buffered' = 1 /\ ondisk' = ondisk + buffered

CreateOutput ==
    /\ pc = "create_output"
    /\ file_created' = TRUE
    /\ ondisk' = 0
    /\ pc' = "write_bom"
    /\ UNCHANGED <<has_dict, tokens, user_dic, mergeVars, buffered, rows,
                   printed, failed_stage>>

WriteBom ==
    /\ pc = "write_bom"
    /\ BufferUnit
    /\ pc' = "write_header"
    /\ UNCHANGED <<has_dict, tokens, user_dic, mergeVars, file_created, rows,
                   printed, failed_stage>>

WriteHeader ==
    /\ pc = "write_header"
    /\ BufferUnit
    /\ pc' = "write_record"
    /\ UNCHANGED <<has_dict, tokens, user_dic, mergeVars, file_created, rows,
                   printed, failed_stage>>

WriteRecord ==
    /\ pc = "write_record"
    /\ rows < Len(corrected_tokens)
    /\ BufferUnit
    /\ rows' = rows + 1
    /\ pc' = "write_record"
    /\ UNCHANGED <<has_dict, tokens, user_dic, mergeVars, file_created,
                   printed, failed_stage>>

RecordsDone ==
    /\ pc = "write_record"
    /\ ~(rows < Len(corrected_tokens))
    /\ pc' = "flush"
    /\ UNCHANGED <<has_dict, tokens, user_dic, mergeVars, fileVars, failed_stage>>

\* A spill fails.  Some part of the buffer may have reached the file before
\* the error, and the writers flush what they hold when they are dropped.
WriteFails ==
    /\ pc \in {"write_bom", "write_header"}
       \/ (pc = "write_record" /\ rows < Len(corrected_tokens))
    /\ ~(buffered < BufCapacity)
    /\ \E k \in 0..buffered : ondisk' = ondisk + k
    /\ buffered' = 0
    /\ failed_stage' = pc
    /\ pc' = "exit_err"
    /\ UNCHANGED <<has_dict, tokens, user_dic, mergeVars, file_created, rows,
                   printed>>

FlushOutput ==
    /\ pc = "flush"
    /\ ondisk' = ondisk + buffered
    /\ buffered' = 0
    /\ pc' = "println"
    /\ UNCHANGED <<has_dict, tokens, user_dic, mergeVars, file_created, rows,
                   printed, failed_stage>>

FlushFails ==
    /\ pc = "flush"
    /\ \E k \in 0..buffered : ondisk' = ondisk + k
    /\ buffered' = 0
    /\ failed_stage' = pc
    /\ pc' = "exit_err"
    /\ UNCHANGED <<has_dict, tokens, user_dic, mergeVars, file_created, rows,
                   printed>>

PrintDone ==
    /\ pc = "println"
    /\ printed' = TRUE
    /\ pc' = "exit_ok"
    /\ UNCHANGED <<has_dict, tokens, user_dic, mergeVars, file_created, ondisk,
                   buffered, rows, failed_stage>>

Next ==
    \/ OpenInput
    \/ ReadInput
    \/ CreateTokenizer
    \/ Tokenize
    \/ LoadUserDictionary
    \/ NoUserDictionary
    \/ StageFails
    \/ ConvertTokens
    \/ ComputeMaxLength
    \/ MergeMatched
    \/ MergeUnmatched
    \/ MergeReturn
    \/ CreateOutput
    \/ WriteBom
    \/ WriteHeader
    \/ WriteRecord
    \/ RecordsDone
    \/ WriteFails
    \/ FlushOutput
    \/ FlushFails
    \/ PrintDone

Spec == Init /\ [][Next]_vars

\* The run up to the return of merge_user_dictionary_words (or of the
\* conversion that replaces it), on which no stage fails.
MergeNext ==
    \/ OpenInput
    \/ ReadInput
    \/ CreateTokenizer
    \/ Tokenize
    \/ LoadUserDictionary
    \/ NoUserDictionary
    \/ ConvertTokens
    \/ ComputeMaxLength
    \/ MergeMatched
    \/ MergeUnmatched
    \/ MergeReturn

MergeSpec == Init /\ [][MergeNext]_vars

\* The program is single-threaded and nothing suspends it: while a step is
\* enabled it takes one.
FairMergeSpec == MergeSpec /\ WF_vars(MergeNext)

\* ------------------------------------------------- definitions for the claims
\* Text spelled by the code's tokens[a..b], written without the model's
\* Candidate.
RunText(a, b) == ConcatText(SubSeq(tokens, a + 1, b))

\* tokens[a..b] is a non-empty run that spells a dictionary entry
MatchingRun(a, b) ==
    /\ 0 <= a /\ a < b /\ b <= Len(tokens)
    /\ RunText(a, b) \in user_dic

Cuts == 0..Len(tokens)

\* merge_user_dictionary_words (or the conversion that replaces it) has
\* returned
AfterMerge ==
    pc \in {"create_output", "write_bom", "write_header", "write_record",
            "flush", "println", "exit_ok"}

InMerge == pc = "merge"

IsPrefix(a, b) == Len(a) <= Len(b) /\ SubSeq(b, 1, Len(a)) = a

TextsOf(ts) == [j \in 1..Len(ts) |-> ts[j].text]

\* C1: content preservation.  While the loop runs, the texts emitted so far
\* spell the texts of tokens[0..i); once it has returned, the texts of the
\* output spell the texts of all the tokens.
ContentPreserved ==
    /\ InMerge => ConcatText(corrected_tokens) = RunText(0, i)
    /\ AfterMerge => ConcatText(corrected_tokens) = ConcatText(tokens)

ContentPreservedWitness ==
    /\ AfterMerge /\ has_dict
    /\ Len(corrected_tokens) >= 2
    /\ \E k \in DOMAIN spans : spans[k].merged /\ spans[k].size >= 2

\* C2: longest-match priority.  With the bound computed from the dictionary,
\* whenever some run starting at the position an output element was emitted
\* for spells an entry, the element is a merge of the longest such run.
LongestMatchPriority ==
    \A k \in DOMAIN spans :
        LET a == spans[k].start
            K == {w \in 1..(Len(tokens) - a) : MatchingRun(a, a + w)}
        IN  K # {} => spans[k].merged /\ spans[k].size = SetMax(K)

LongestMatchPriorityWitness ==
    \E k \in DOMAIN spans :
        /\ spans[k].merged
        /\ spans[k].size = 3
        /\ MatchingRun(spans[k].start, spans[k].start + 2)

\* C3: field derivation.  A merged element takes byte_start and position from
\* the first token of its run, byte_end and position_length from the last,
\* and its text is the run's text; a pass-through element equals its token.
FieldDerivationScenario ==
    /\ AfterMerge
    /\ TextsOf(tokens) = <<(<<"A", "B">>), (<<"B">>), (<<"A">>)>>
    /\ user_dic = {<<"A", "B", "B">>}

FieldDerivation ==
    /\ Len(spans) = Len(corrected_tokens)
    /\ \A k \in DOMAIN spans :
        LET a == spans[k].start
            w == spans[k].size
            m == corrected_tokens[k]
        IN  IF spans[k].merged
            THEN /\ m.text = RunText(a, a + w)
                 /\ m.byte_start = Tok(a).byte_start
                 /\ m.byte_end = Tok(a + w - 1).byte_end
                 /\ m.position = Tok(a).position
                 /\ m.position_length = Tok(a + w - 1).position_length
            ELSE /\ w = 1
                 /\ m = Tok(a)
    /\ FieldDerivationScenario =>
        corrected_tokens =
            << [text |-> <<"A", "B", "B">>, byte_start |-> 0, byte_end |-> 7,
                position |-> 0, position_length |-> Tok(1).position_length],
               [text |-> <<"A">>, byte_start |-> 7, byte_end |-> 8,
                position |-> 2, position_length |-> Tok(2).position_length] >>

FieldDerivationWitness ==
    /\ FieldDerivationScenario
    /\ Tok(0).position_length # Tok(1).position_length

\* C4: the match set holds exactly the texts of the merged elements emitted
\* so far, all of them dictionary entries, and no step removes an entry.
MergedTexts == {corrected_tokens[k].text : k \in {j \in DOMAIN spans : spans[j].merged}}

MatchSetContract ==
    /\ [](/\ extracted_user_dictionaries \subseteq user_dic
          /\ extracted_user_dictionaries = MergedTexts)
    /\ [][extracted_user_dictionaries \subseteq extracted_user_dictionaries']_vars

MatchSetContractWitness ==
    /\ AfterMerge
    /\ Cardinality(extracted_user_dictionaries) = 2
    /\ Len(corrected_tokens) >= 3

\* C5: when no run of tokens spells a dictionary entry (an empty dictionary
\* included, for which the bound is 1, and a run without a dictionary), the
\* output is the token sequence field for field and the match set is empty.
NoRunMatches == \A a \in Cuts, b \in Cuts : ~MatchingRun(a, b)

IdentityUnderDisjoint ==
    /\ (InMerge /\ user_dic = {}) => max_length = 1
    /\ (AfterMerge /\ NoRunMatches) =>
           /\ corrected_tokens = tokens
           /\ extracted_user_dictionaries = {}

IdentityUnderDisjointWitness ==
    /\ AfterMerge /\ has_dict /\ NoRunMatches
    /\ Len(tokens) >= 2
    /\ \E v \in user_dic : Len(v) >= 2 /\ SubSeq(v, 1, Len(Tok(0).text)) = Tok(0).text

\* C6 as stated: every run that spells an entry and is not properly contained
\* in another such run is one merged element of the output.
MaximalRun(a, b) ==
    /\ MatchingRun(a, b)
    /\ \A c \in Cuts, d \in Cuts :
           (MatchingRun(c, d) /\ c <= a /\ b <= d) => (c = a /\ d = b)

Collapsed(a, b) ==
    \E k \in DOMAIN spans :
        spans[k].merged /\ spans[k].start = a /\ spans[k].size = b - a

EveryMaximalRunCollapsed ==
    AfterMerge =>
        \A a \in Cuts, b \in Cuts : MaximalRun(a, b) => Collapsed(a, b)

\* C6 as amended: every such run that no matching run starting before it
\* reaches into is one merged element of the output.
OverlappedFromLeft(a) ==
    \E c \in Cuts, d \in Cuts : MatchingRun(c, d) /\ c < a /\ a < d

EveryLeftmostMaximalRunCollapsed ==
    AfterMerge =>
        \A a \in Cuts, b \in Cuts :
            (MaximalRun(a, b) /\ ~OverlappedFromLeft(a)) => Collapsed(a, b)

EveryLeftmostMaximalRunCollapsedWitness ==
    /\ AfterMerge
    /\ \E a \in Cuts, b \in Cuts :
           /\ a >= 1 /\ b - a >= 2
           /\ MaximalRun(a, b) /\ ~OverlappedFromLeft(a)
           /\ \E c \in Cuts, d \in Cuts : MatchingRun(c, d) /\ a < c /\ c < b /\ b < d

\* C7 as stated: a failed run prints no completion message, runs no stage
\* after the failed one and leaves the output file untouched or complete; the
\* message is printed only once the whole output is written and flushed.
BeforeMergeStages ==
    {"open_input", "read_input", "create_tokenizer", "tokenize",
     "load_user_dictionary"}

\* The part of C7 about stopping at the first failure.
FailFast ==
    /\ pc = "exit_err" =>
           /\ ~printed
           /\ failed_stage # "none"
           /\ failed_stage \in BeforeMergeStages =>
                  corrected_tokens = <<>> /\ ~file_created
           /\ failed_stage \in BeforeMergeStages \ {"load_user_dictionary"} =>
                  user_dic = {}
           /\ failed_stage \in BeforeMergeStages \ {"load_user_dictionary", "tokenize"} =>
                  tokens = <<>>
    /\ printed => Complete /\ buffered = 0 /\ failed_stage = "none"

NoPartialOutputCommit ==
    /\ FailFast
    /\ pc = "exit_err" => (~file_created \/ Complete)

\* C8: an entry that is a strict substring of a token's text and is not the
\* text of any run of whole tokens never produces a merge: it is not in the
\* match set, no output element has it as text, and the token is passed
\* through or merged in a run that spells an entry.
BoundaryOnlyEntry(v) ==
    /\ \E j \in DOMAIN tokens : v # tokens[j].text /\ IsInfix(v, tokens[j].text)
    /\ \A a \in Cuts, b \in Cuts : a < b => RunText(a, b) # v

SpanOfToken(j) ==
    {k \in DOMAIN spans : spans[k].start <= j /\ j < spans[k].start + spans[k].size}

BoundaryOnlyMatching ==
    \A v \in user_dic :
        BoundaryOnlyEntry(v) =>
            /\ v \notin extracted_user_dictionaries
            /\ \A k \in DOMAIN corrected_tokens : corrected_tokens[k].text # v
            /\ \A j \in 0..(Len(tokens) - 1) :
                   (v # Tok(j).text /\ IsInfix(v, Tok(j).text)) =>
                       \A k \in SpanOfToken(j) :
                           IF spans[k].merged
                           THEN /\ corrected_tokens[k].text \in user_dic
                                /\ corrected_tokens[k].text =
                                       RunText(spans[k].start,
                                               spans[k].start + spans[k].size)
                           ELSE corrected_tokens[k] = Tok(j)

BoundaryOnlyMatchingWitness ==
    /\ AfterMerge
    /\ \E v \in user_dic :
           /\ v # <<>>
           /\ BoundaryOnlyEntry(v)
           /\ \E j \in 0..(Len(tokens) - 1) :
                  /\ v # Tok(j).text /\ IsInfix(v, Tok(j).text)
                  /\ \E k \in SpanOfToken(j) : spans[k].merged /\ spans[k].size >= 2

\* C9: the cursor never decreases and the output only grows at its end; the
\* result is the left-to-right greedy segmentation, in which the run taken at
\* a position depends on the tokens from there on only.  Four tokens whose
\* only matching runs are the first two and the last three come out as the
\* merged first two followed by the other two.
RECURSIVE GreedyFrom(_)
GreedyFrom(a) ==
    IF a >= Len(tokens) THEN <<>>
    ELSE LET K == {w \in 1..(Len(tokens) - a) : MatchingRun(a, a + w)}
             w == IF K = {} THEN 1 ELSE SetMax(K)
         IN  <<[start |-> a, size |-> w, merged |-> K # {}]>> \o GreedyFrom(a + w)

GreedyScenario ==
    /\ AfterMerge
    /\ Len(tokens) = 4
    /\ \A a \in Cuts, b \in Cuts :
           MatchingRun(a, b) <=> (<<a, b>> \in {<<0, 2>>, <<1, 4>>})

GreedyNonBacktracking ==
    /\ [][i' >= i /\ IsPrefix(corrected_tokens, corrected_tokens')]_vars
    /\ [](AfterMerge => spans = GreedyFrom(0))
    /\ [](GreedyScenario =>
             TextsOf(corrected_tokens) = <<RunText(0, 2), Tok(2).text, Tok(3).text>>)

GreedyNonBacktrackingWitness == GreedyScenario

\* C10: every iteration advances the cursor by at least 1 and never past the
\* end, no read leaves the token sequence, the loop is never stuck and ends
\* after at most n iterations with i = n, and the runs of the output elements
\* partition [0, n) in order.
SpansEnd(k) == IF k = 0 THEN 0 ELSE spans[k].start + spans[k].size

Contiguous ==
    \A k \in DOMAIN spans :
        spans[k].size >= 1 /\ spans[k].start = SpansEnd(k - 1)

ScanCoverage ==
    /\ 0 <= i /\ i <= Len(tokens)
    /\ pc # "panic"
    /\ iters <= i
    /\ Contiguous
    /\ InMerge => SpansEnd(Len(spans)) = i
    /\ InMerge => ENABLED (MergeMatched \/ MergeUnmatched \/ MergeReturn)
    /\ AfterMerge => SpansEnd(Len(spans)) = Len(tokens)
    /\ (AfterMerge /\ has_dict) => i = Len(tokens)

TerminationWithCoverage ==
    /\ []ScanCoverage
    /\ [][(InMerge /\ pc' = "merge") =>
              /\ i' >= i + 1
              /\ i' <= Len(tokens)
              /\ iters' = iters + 1]_vars

TerminationWithCoverageWitness ==
    /\ AfterMerge /\ has_dict
    /\ max_length > Len(tokens)
    /\ iters < Len(tokens)
    /\ \E k \in DOMAIN spans : spans[k].merged /\ spans[k].size = 2

\* The same scan under fairness: once the bound is computed, the loop returns
\* with the cursor at the end.
ScanTerminates ==
    (pc = "max_length") ~> (pc = "create_output" /\ i = Len(tokens))

====
